---- MODULE Spec2Model ----
(***************************************************************************)
(* Shield_EDR: the agent (edr_agent/agent.py) reports events to the        *)
(* collector (edr_server/app.py) over HTTP.                                *)
(*                                                                         *)
(*   agent:     POST /start_monitoring spawns an EventMonitor.monitor loop *)
(*              POST /report calls EventReporterService.report_event once  *)
(*              report_event is wrapped by tenacity's @retry               *)
(*   collector: POST /report validates an EventCreate body and inserts one *)
(*              row into the events table inside a request-scoped session  *)
(***************************************************************************)
EXTENDS Integers, Sequences, FiniteSets, TLC

VARIABLES
    now,      \* the wall clock datetime.now() reads
    store,    \* the events table: the committed rows, in insertion order
    conn,     \* per client: its HTTP exchange with the collector's POST /report
    call,     \* per caller: the report_event invocation (tenacity's retry state)
    mon,      \* per background task: the EventMonitor.monitor loop
    acks,     \* number of "Monitoring started" responses returned
    nowResp   \* what the caller of the agent's POST /report received

vars == <<now, store, conn, call, mon, acks, nowResp>>

---------------------------------------------------------------------------
(* Bounds of the model *)

MaxMonitors == 2     \* start_monitoring calls explored
MaxIter == 3         \* iterations explored per monitor loop
MaxRecords == 2      \* rows the events table can take before storage fails
MaxClock == 1        \* readings of the wall clock
MaxTime == 12        \* time units a timed run lasts

(* Program constants *)

MaxAttempts == 5     \* stop_after_attempt(5)
WaitMultiplier == 1  \* wait_exponential(multiplier=1, ...)
WaitMin == 2         \* wait_exponential(min=2, ...)
WaitMax == 10        \* wait_exponential(max=10)
Interval == 10       \* EventMonitor(interval=10)

---------------------------------------------------------------------------
(* Identities *)

ReportNow == 0
Monitors == 1..MaxMonitors
Callers == {ReportNow} \cup Monitors
DirectClients == {-1, -2}
Clients == Callers \cup DirectClients

Max(a, b) == IF a >= b THEN a ELSE b
Min(a, b) == IF a <= b THEN a ELSE b

RECURSIVE Pow(_, _)
Pow(b, e) == IF e <= 0 THEN 1 ELSE b * Pow(b, e - 1)

RECURSIVE SumSeq(_)
SumSeq(s) == IF s = <<>> THEN 0 ELSE Head(s) + SumSeq(Tail(s))

---------------------------------------------------------------------------
(* Values on the wire and in the table                                     *)

(* A Python datetime: wall-clock reading, and the UTC offset of an aware   *)
(* value (aware = FALSE: a naive datetime, off = 0).                       *)
DateTime(w, a, o) == [wall |-> w, aware |-> a, off |-> o]

(* The JSON text of a timestamp: an ISO-8601 text in one of two spellings  *)
(* ("T" or a space between date and time), or text that is no date.        *)
IsoText(f, dt) == [form |-> f, wall |-> dt.wall, aware |-> dt.aware, off |-> dt.off]
JunkText == [form |-> "junk", wall |-> 0, aware |-> FALSE, off |-> 0]

(* datetime.isoformat() *)
isoformat(dt) == IsoText("T", dt)

(* A JSON field: a string, or absent from the body. *)
JStr(s) == [tag |-> "str", val |-> s]
JAbsent == [tag |-> "absent", val |-> ""]

Payload(et, ts) == [event_type |-> et, timestamp |-> ts]
NoPayload == Payload(JAbsent, JunkText)

(* pydantic's datetime field: both ISO spellings parse to the same value,  *)
(* an offset is kept as tzinfo; anything else is a validation error.       *)
ParsableTimestamp(ts) == ts.form \in {"T", "space"}
ParseTimestamp(ts) == DateTime(ts.wall, ts.aware, ts.off)

(* EventCreate(event_type: str, timestamp: datetime): the body validates   *)
(* when event_type is present and a string (any string, "" included) and   *)
(* timestamp parses.                                                       *)
EventCreateValid(p) ==
    /\ p.event_type.tag = "str"
    /\ ParsableTimestamp(p.timestamp)

(* Column(DateTime): the column has no timezone; the value is written from *)
(* its year..microsecond fields, so tzinfo is dropped (not converted).     *)
ColumnDateTime(dt) == DateTime(dt.wall, FALSE, 0)

(* Column(Integer, primary_key=True): the next row id. *)
RECURSIVE MaxId(_)
MaxId(rows) == IF rows = <<>> THEN 0 ELSE Max(Head(rows).id, MaxId(Tail(rows)))
NextRowId(rows) == MaxId(rows) + 1

(* Event(event_type=..., timestamp=...) as the row the table holds. *)
EventRow(rows, event_type, timestamp) ==
    [id |-> NextRowId(rows), event_type |-> event_type,
     timestamp |-> ColumnDateTime(timestamp)]

---------------------------------------------------------------------------
(* Collector: POST /report                                                 *)

(* Where the persistence of one request can fail. *)
Faults == {"none", "insert", "commit", "refresh"}

(* One HTTP exchange. st: idle -> sent -> open (session acquired) -> resp. *)
(* session is the Session the request holds open (0: none).                *)
(* fault, tries and handled describe how the collector answered:           *)
(* tries counts add_event calls made for the request, handled tells a      *)
(* response built by the framework's handlers (a JSON body with a status   *)
(* and a message) from an exception that escaped the endpoint.             *)
IdleConn ==
    [st |-> "idle", payload |-> NoPayload, status |-> 0, body |-> "",
     fault |-> "none", tries |-> 0, handled |-> TRUE, session |-> 0]

SentConn(p) == [IdleConn EXCEPT !.st = "sent", !.payload = p]

(* An add_event whose failed commit leaves the row behind. *)
add_event_no_rollback(rows, event_type, timestamp, fault) ==
    IF fault = "insert"
    THEN rows
    ELSE Append(rows, EventRow(rows, event_type, timestamp))

(* An add_event that skips an event the table already holds. *)
add_event_dedup(rows, event_type, timestamp, fault) ==
    IF fault \in {"insert", "commit"}
    THEN rows
    ELSE IF \E i \in 1..Len(rows) :
                /\ rows[i].event_type = event_type
                /\ rows[i].timestamp = ColumnDateTime(timestamp)
    THEN rows
    ELSE Append(rows, EventRow(rows, event_type, timestamp))

(* An add_event that keeps one row per event_type: a later event of the    *)
(* same type overwrites the timestamp of the row already there.            *)
add_event_upsert(rows, event_type, timestamp, fault) ==
    IF fault \in {"insert", "commit"}
    THEN rows
    ELSE IF \E i \in 1..Len(rows) : rows[i].event_type = event_type
    THEN [i \in 1..Len(rows) |->
            IF rows[i].event_type = event_type
            THEN [rows[i] EXCEPT !.timestamp = ColumnDateTime(timestamp)]
            ELSE rows[i]]
    ELSE Append(rows, EventRow(rows, event_type, timestamp))

(* EventRepository.add_event under a fault: the rows afterwards.           *)
(* add + commit insert the row; an insert or commit that raises leaves the *)
(* transaction rolled back; a refresh that raises comes after the commit.  *)
add_event(rows, event_type, timestamp, fault) ==
    IF fault \in {"insert", "commit"}
    THEN rows
    ELSE Append(rows, EventRow(rows, event_type, timestamp))

(* A get_session that closes the session after the yield, without         *)
(* try/finally: an exception thrown into the generator skips the close.    *)
create_event_response_no_finally(c, fault) ==
    IF ~EventCreateValid(c.payload)
    THEN [c EXCEPT !.st = "resp", !.status = 422, !.body = "validation error",
                   !.fault = "none", !.tries = 0, !.handled = TRUE]
    ELSE IF fault = "none"
    THEN [c EXCEPT !.st = "resp", !.status = 201, !.body = "Event recorded",
                   !.fault = fault, !.tries = 1, !.handled = TRUE,
                   !.session = 0]
    ELSE [c EXCEPT !.st = "resp", !.status = 500, !.body = "Internal Server Error",
                   !.fault = fault, !.tries = 1, !.handled = FALSE]

(* The response of create_event for a request whose session is open; on    *)
(* every path get_session's finally closes the session.                    *)
create_event_response(c, fault) ==
    IF ~EventCreateValid(c.payload)
    THEN [c EXCEPT !.st = "resp", !.status = 422, !.body = "validation error",
                   !.fault = "none", !.tries = 0, !.handled = TRUE,
                   !.session = 0]
    ELSE IF fault = "none"
    THEN [c EXCEPT !.st = "resp", !.status = 201, !.body = "Event recorded",
                   !.fault = fault, !.tries = 1, !.handled = TRUE,
                   !.session = 0]
    ELSE [c EXCEPT !.st = "resp", !.status = 500, !.body = "Internal Server Error",
                   !.fault = fault, !.tries = 1, !.handled = FALSE,
                   !.session = 0]

(* The client of the exchange went away: nobody reads the response. *)
ClientGone(c) == c \in Callers /\ call[c].pc = "cancelled"

(* self.SessionLocal(): a new Session object, none of those in use. *)
SessionLocal(conns) ==
    CHOOSE n \in 1..Cardinality(DOMAIN conns) :
        /\ \A c \in DOMAIN conns : conns[c].session # n
        /\ \A k \in 1..(n - 1) : \E c \in DOMAIN conns : conns[c].session = k

(* Database.get_session up to its yield: the request gets its session. *)
get_session(c) ==
    /\ conn[c].st = "sent"
    /\ conn' = [conn EXCEPT ![c].st = "open", ![c].session = SessionLocal(conn)]
    /\ UNCHANGED <<now, store, call, mon, acks, nowResp>>

(* create_event -> create_event_endpoint -> EventService.create_event ->   *)
(* add_event, then get_session's finally: db.close().                      *)
(* A full table makes the commit fail.                                     *)
create_event(c, fault) ==
    /\ conn[c].st = "open"
    /\ (fault \in {"none", "refresh"}) => Len(store) < MaxRecords
    /\ conn' = [conn EXCEPT ![c] = IF ClientGone(c) THEN IdleConn
                                   ELSE create_event_response(conn[c], fault)]
    /\ store' = IF EventCreateValid(conn[c].payload)
                THEN add_event(store, conn[c].payload.event_type.val,
                               ParseTimestamp(conn[c].payload.timestamp), fault)
                ELSE store
    /\ UNCHANGED <<now, call, mon, acks, nowResp>>

---------------------------------------------------------------------------
(* Agent: EventReporterService.report_event under tenacity's @retry        *)

(* An exception: its class, and the status / detail it carries. *)
Exc(kind, status, detail) == [kind |-> kind, status |-> status, detail |-> detail]
NoExc == Exc("none", 0, "")

(* except httpx.RequestError as e: raise HTTPException(500, "Failed to     *)
(* connect to server: {e}")                                                *)
RequestErrors == {"ConnectError", "ReadTimeout"}
HTTPException500(e) == Exc("HTTPException", 500, e)

(* response.raise_for_status() on a 4xx/5xx response: httpx.HTTPStatusError, *)
(* which is no RequestError and passes the except clause unchanged.          *)
HTTPStatusError(status) == Exc("HTTPStatusError", status, "")

(* tenacity.RetryError(last_attempt): what a call raises when it gives up  *)
(* (reraise is left at its default, False).                                *)
Raised(kind, last) == [kind |-> kind, last_attempt |-> last]
NoError == Raised("none", NoExc)
RetryError(last_attempt) == Raised("RetryError", last_attempt)
CancelledError == Raised("CancelledError", NoExc)

(* One report_event invocation.                                            *)
(*   pc        idle | attempt | await | backoff | returned | raised | cancelled *)
(*   attempt   retry_state.attempt_number                                  *)
(*   delay     the backoff being slept                                     *)
(*   posts     client.post calls made so far                               *)
(*   slept     the backoff delays waited in full, in order                 *)
(*   transport every attempt so far that failed, failed in the transport   *)
IdleCall ==
    [pc |-> "idle", event_type |-> "", attempt |-> 0,
     delay |-> 0, posts |-> 0, slept |-> <<>>, transport |-> TRUE,
     error |-> NoError, result |-> ""]

NewCall(event_type) ==
    [IdleCall EXCEPT !.pc = "attempt", !.event_type = event_type, !.attempt = 1]

(* A wait that takes the exponent from the attempt number itself. *)
wait_exponential_from_attempt(n) ==
    Max(Max(0, WaitMin), Min(WaitMultiplier * Pow(2, n), WaitMax))

(* wait_exponential(multiplier=1, min=2, max=10) after attempt number n:   *)
(* max(max(0, min), min(multiplier * 2 ** (n - 1), max))                   *)
wait_exponential(n) ==
    Max(Max(0, WaitMin), Min(WaitMultiplier * Pow(2, n - 1), WaitMax))

(* stop_after_attempt(5): attempt_number >= max_attempt_number *)
stop_after_attempt(n) == n >= MaxAttempts

(* retry_if_exception_type(): the default retries every Exception. *)
ExceptionClasses == {"HTTPException", "HTTPStatusError", "RetryError"}

(* retry=retry_if_exception_type(Exception), tenacity's default: the       *)
(* exceptions after which a call is tried again. asyncio.CancelledError is *)
(* a BaseException and not among them.                                     *)
retry_if_exception_type(kind) == kind \in ExceptionClasses

(* A stop rule that gives up one attempt late. *)
attempt_failed_late(k, exc) ==
    LET k1 == [k EXCEPT !.transport = @ /\ exc.kind = "HTTPException"]
    IN  IF k1.attempt > MaxAttempts
        THEN [k1 EXCEPT !.pc = "raised", !.error = RetryError(exc)]
        ELSE [k1 EXCEPT !.pc = "backoff", !.delay = wait_exponential(k1.attempt)]

(* A retry loop that sleeps before it looks at the stop rule. *)
attempt_failed_sleep_first(k, exc) ==
    LET k1 == [k EXCEPT !.transport = @ /\ exc.kind = "HTTPException",
                        !.slept = IF stop_after_attempt(k.attempt)
                                  THEN Append(@, wait_exponential(k.attempt)) ELSE @]
    IN  IF stop_after_attempt(k1.attempt)
        THEN [k1 EXCEPT !.pc = "raised", !.error = RetryError(exc)]
        ELSE [k1 EXCEPT !.pc = "backoff", !.delay = wait_exponential(k1.attempt)]

(* tenacity after an attempt that raised exc (retry_state.outcome): give   *)
(* up with RetryError(outcome), or sleep wait(retry_state) and try again.  *)
attempt_failed(k, exc) ==
    LET k1 == [k EXCEPT !.transport = @ /\ exc.kind = "HTTPException"]
    IN  IF stop_after_attempt(k1.attempt)
        THEN [k1 EXCEPT !.pc = "raised", !.error = RetryError(exc)]
        ELSE [k1 EXCEPT !.pc = "backoff", !.delay = wait_exponential(k1.attempt)]

(* A report_event that fetches its result with one more request. *)
attempt_succeeded_extra_post(k, body) ==
    [k EXCEPT !.pc = "returned", !.result = body, !.posts = @ + 1]

(* A 2xx response: return response.json(). *)
attempt_succeeded(k, body) == [k EXCEPT !.pc = "returned", !.result = body]

(* A retry state kept on the shared EventReporterService: the attempt     *)
(* number of one call becomes that of every call under way.                *)
UpdateCallShared(calls, c, k) ==
    [x \in DOMAIN calls |->
        IF x = c THEN k
        ELSE IF calls[x].pc \in {"attempt", "await", "backoff"}
             THEN [calls[x] EXCEPT !.attempt = k.attempt]
             ELSE calls[x]]

(* Each invocation has its own retry state: an update touches one call. *)
UpdateCall(calls, c, k) == [calls EXCEPT ![c] = k]

---------------------------------------------------------------------------
(* Agent: EventMonitor.monitor                                             *)

(*   pc     unspawned | spawned | reporting | sleeping | cancelled | crashed *)
(*   iter   iterations started                                             *)
(*   fails  consecutive iterations whose report_event raised               *)
(*   wake   the time at which the asyncio.sleep entered last is over       *)
NoMonitor ==
    [pc |-> "unspawned", event_type |-> "", iter |-> 0, fails |-> 0, wake |-> 0]

Spawned(m) == mon[m].pc # "unspawned"
NumSpawned == Cardinality({m \in Monitors : Spawned(m)})

(* A bare except clause: it catches BaseException, CancelledError too. *)
CaughtByBareExcept(kind) == TRUE

(* An except clause that names HTTPException only. *)
CaughtByNarrowExcept(kind) == kind = "HTTPException"

(* except Exception as e: what the clause catches. *)
CaughtByMonitor(kind) == kind \in ExceptionClasses

(* A loop on a fixed schedule: the sleep is shortened by the time the call *)
(* spent in its backoff waits.                                             *)
monitor_after_report_fixed_rate(m, k) ==
    IF k.pc = "returned"
    THEN [m EXCEPT !.pc = "sleeping", !.fails = 0,
                   !.wake = now + Max(0, Interval - SumSeq(k.slept))]
    ELSE IF CaughtByMonitor(k.error.kind)
    THEN [m EXCEPT !.pc = "sleeping", !.fails = @ + 1,
                   !.wake = now + Max(0, Interval - SumSeq(k.slept))]
    ELSE [m EXCEPT !.pc = "crashed"]

(* The loop body after report_event returned or raised: the except clause, *)
(* then await asyncio.sleep(self.interval), which is over interval time    *)
(* units from now.                                                         *)
monitor_after_report(m, k) ==
    IF k.pc = "returned"
    THEN [m EXCEPT !.pc = "sleeping", !.fails = 0, !.wake = now + Interval]
    ELSE IF CaughtByMonitor(k.error.kind)
    THEN [m EXCEPT !.pc = "sleeping", !.fails = @ + 1, !.wake = now + Interval]
    ELSE [m EXCEPT !.pc = "crashed"]

---------------------------------------------------------------------------
(* Agent: the two routes                                                   *)

(* An HTTP response of the agent. handled: built by FastAPI from a return  *)
(* value or an HTTPException; FALSE: an exception escaped the endpoint and *)
(* the server answered its generic 500.                                    *)
Resp(status, body, handled) == [status |-> status, body |-> body, handled |-> handled]
NoResp == Resp(0, "", TRUE)

(* Event(event_type: str, timestamp: datetime), the body of both routes. *)
EventValid(p) == p.event_type.tag = "str" /\ ParsableTimestamp(p.timestamp)

(* POST /report: return await self.event_reporter.report_event(...) *)
report_response(k) ==
    IF k.pc = "returned" THEN Resp(201, k.result, TRUE)
    ELSE IF k.error.kind = "HTTPException"
    THEN Resp(k.error.last_attempt.status, k.error.last_attempt.detail, TRUE)
    ELSE Resp(500, "Internal Server Error", FALSE)

(* What follows in the same task when call c becomes k. *)
Settle(c, k) ==
    /\ call' = UpdateCall(call, c, k)
    /\ IF k.pc \in {"returned", "raised"}
       THEN IF c = ReportNow
            THEN /\ nowResp' = report_response(k)
                 /\ UNCHANGED mon
            ELSE /\ mon' = [mon EXCEPT ![c] = monitor_after_report(mon[c], k)]
                 /\ UNCHANGED nowResp
       ELSE UNCHANGED <<mon, nowResp>>

(* A report_event whose timestamp was taken once, when the service was     *)
(* constructed.                                                            *)
client_post_stale_timestamp(c) ==
    /\ call[c].pc = "attempt"
    /\ conn[c].st = "idle"
    /\ conn' = [conn EXCEPT ![c] = SentConn(Payload(JStr(call[c].event_type),
                                            isoformat(DateTime(0, FALSE, 0))))]
    /\ Settle(c, [call[c] EXCEPT !.pc = "await", !.posts = @ + 1])
    /\ UNCHANGED <<now, store, acks>>

(* client.post(...): the request leaves with a fresh event_data. *)
client_post(c) ==
    /\ call[c].pc = "attempt"
    /\ conn[c].st = "idle"
    /\ conn' = [conn EXCEPT ![c] = SentConn(Payload(JStr(call[c].event_type),
                                            isoformat(DateTime(now, FALSE, 0))))]
    /\ Settle(c, [call[c] EXCEPT !.pc = "await", !.posts = @ + 1])
    /\ UNCHANGED <<now, store, acks>>

(* client.post(...) raises httpx.ConnectError: the collector is unreachable. *)
connect_error(c) ==
    /\ call[c].pc = "attempt"
    /\ conn[c].st = "idle"
    /\ Settle(c, attempt_failed([call[c] EXCEPT !.posts = @ + 1],
                                HTTPException500("ConnectError")))
    /\ UNCHANGED <<now, store, conn, acks>>

(* A report_event without raise_for_status(): every response is returned. *)
response_received_no_raise(c) ==
    /\ call[c].pc = "await"
    /\ conn[c].st = "resp"
    /\ conn' = [conn EXCEPT ![c] = IdleConn]
    /\ Settle(c, attempt_succeeded(call[c], conn[c].body))
    /\ UNCHANGED <<now, store, acks>>

(* A report_event that gives up at once on a client error (4xx) and        *)
(* retries the other failures.                                             *)
response_received_fail_fast(c) ==
    /\ call[c].pc = "await"
    /\ conn[c].st = "resp"
    /\ conn' = [conn EXCEPT ![c] = IdleConn]
    /\ Settle(c, IF conn[c].status \in 400..499
                 THEN [call[c] EXCEPT !.pc = "raised", !.transport = FALSE,
                          !.error = Raised("HTTPStatusError",
                                           HTTPStatusError(conn[c].status))]
                 ELSE IF conn[c].status >= 400
                 THEN attempt_failed(call[c], HTTPStatusError(conn[c].status))
                 ELSE attempt_succeeded(call[c], conn[c].body))
    /\ UNCHANGED <<now, store, acks>>

(* The response arrives: raise_for_status(), then return response.json(). *)
response_received(c) ==
    /\ call[c].pc = "await"
    /\ conn[c].st = "resp"
    /\ conn' = [conn EXCEPT ![c] = IdleConn]
    /\ Settle(c, IF conn[c].status >= 400
                 THEN attempt_failed(call[c], HTTPStatusError(conn[c].status))
                 ELSE attempt_succeeded(call[c], conn[c].body))
    /\ UNCHANGED <<now, store, acks>>

(* The response is lost on its way back: httpx.ReadTimeout. *)
read_timeout(c) ==
    /\ call[c].pc = "await"
    /\ conn[c].st = "resp"
    /\ conn' = [conn EXCEPT ![c] = IdleConn]
    /\ Settle(c, attempt_failed(call[c], HTTPException500("ReadTimeout")))
    /\ UNCHANGED <<now, store, acks>>

(* tenacity's sleep(delay) is over: the next attempt. *)
backoff_elapsed(c) ==
    /\ call[c].pc = "backoff"
    /\ Settle(c, [call[c] EXCEPT !.pc = "attempt", !.attempt = @ + 1,
                                 !.slept = Append(@, call[c].delay), !.delay = 0])
    /\ UNCHANGED <<now, store, conn, acks>>

(* A start_monitoring that keeps one loop per event type. *)
start_monitoring_dedup(p) ==
    /\ EventValid(p)
    /\ NumSpawned < MaxMonitors
    /\ mon' = IF \E m \in Monitors : Spawned(m) /\ mon[m].event_type = p.event_type.val
              THEN mon
              ELSE [mon EXCEPT ![NumSpawned + 1] =
                      [NoMonitor EXCEPT !.pc = "spawned", !.event_type = p.event_type.val]]
    /\ acks' = acks + 1
    /\ UNCHANGED <<now, store, conn, call, nowResp>>

(* POST /start_monitoring: background_tasks.add_task(self.monitor.monitor, *)
(* event.event_type); return {"message": "Monitoring started"}.            *)
start_monitoring(p) ==
    /\ EventValid(p)
    /\ NumSpawned < MaxMonitors
    /\ mon' = [mon EXCEPT ![NumSpawned + 1] =
                  [NoMonitor EXCEPT !.pc = "spawned", !.event_type = p.event_type.val]]
    /\ acks' = acks + 1
    /\ UNCHANGED <<now, store, conn, call, nowResp>>

(* A loop that starts report_event as a task of its own and goes to sleep  *)
(* without awaiting it.                                                    *)
monitor_iterate_no_await(m) ==
    /\ mon[m].iter < MaxIter
    /\ mon' = [mon EXCEPT ![m].pc = "sleeping", ![m].iter = @ + 1]
    /\ call' = UpdateCall(call, m, NewCall(mon[m].event_type))
    /\ UNCHANGED <<now, store, conn, acks, nowResp>>

(* One pass of while True up to its first await: report_event is called. *)
monitor_iterate(m) ==
    /\ mon[m].iter < MaxIter
    /\ mon' = [mon EXCEPT ![m].pc = "reporting", ![m].iter = @ + 1]
    /\ call' = UpdateCall(call, m, NewCall(mon[m].event_type))
    /\ UNCHANGED <<now, store, conn, acks, nowResp>>

(* The background task starts running after the response was sent. *)
background_task_run(m) ==
    /\ mon[m].pc = "spawned"
    /\ monitor_iterate(m)

(* asyncio.sleep(self.interval) is over: the next pass of the loop. *)
monitor_sleep_elapsed(m) ==
    /\ mon[m].pc = "sleeping"
    /\ monitor_iterate(m)

(* asyncio.sleep(self.interval) returns no earlier than its time. *)
monitor_timer_fired(m) ==
    /\ now >= mon[m].wake
    /\ monitor_sleep_elapsed(m)

(* The task is cancelled at an await: CancelledError is raised there.      *)
(* In report_event (an attempt or tenacity's sleep) it is an outcome       *)
(* tenacity does not retry, and the except clause of monitor() does not    *)
(* catch it; in asyncio.sleep it is raised outside the try. The coroutine  *)
(* and its client are gone, a response already there is dropped.           *)
cancel(m) ==
    /\ mon[m].pc \in {"reporting", "sleeping"}
    /\ LET retried == /\ call[m].pc \in {"attempt", "await"}
                       /\ retry_if_exception_type(CancelledError.kind)
            k == IF retried
                 THEN attempt_failed(call[m], Exc(CancelledError.kind, 0, ""))
                 ELSE [IdleCall EXCEPT !.pc = "cancelled", !.error = CancelledError]
        IN  /\ call' = UpdateCall(call, m, k)
            /\ mon' = [mon EXCEPT ![m] =
                          IF mon[m].pc = "sleeping" THEN [@ EXCEPT !.pc = "cancelled"]
                          ELSE IF k.pc \in {"backoff", "raised"}
                          THEN IF k.pc = "raised" THEN monitor_after_report(@, k) ELSE @
                          ELSE IF CaughtByMonitor(k.error.kind)
                          THEN monitor_after_report(@, k)
                          ELSE [@ EXCEPT !.pc = "cancelled"]]
    /\ conn' = IF conn[m].st = "resp" THEN [conn EXCEPT ![m] = IdleConn] ELSE conn
    /\ UNCHANGED <<now, store, acks, nowResp>>

(* POST /report on the agent. *)
report_now(p) ==
    /\ call[ReportNow].pc \in {"idle", "returned", "raised"}
    /\ IF EventValid(p)
       THEN /\ call' = UpdateCall(call, ReportNow, NewCall(p.event_type.val))
            /\ nowResp' = NoResp
       ELSE /\ call' = UpdateCall(call, ReportNow, IdleCall)
            /\ nowResp' = Resp(422, "validation error", TRUE)
    /\ UNCHANGED <<now, store, conn, mon, acks>>

(* A client of the collector other than the agent posts a body. *)
direct_post(c, p) ==
    /\ c \in DirectClients
    /\ conn[c].st \in {"idle", "resp"}
    /\ conn' = [conn EXCEPT ![c] = SentConn(p)]
    /\ UNCHANGED <<now, store, call, mon, acks, nowResp>>

(* What stands at server_url answers the request with a status of its own *)
(* (a wrong path, a proxy, a collector with another schema): the response  *)
(* client.post returns is an input of report_event.                        *)
server_rejects(c, status) ==
    /\ conn[c].st = "sent"
    /\ conn' = [conn EXCEPT ![c] = [@ EXCEPT !.st = "resp", !.status = status,
                                             !.body = "rejected"]]
    /\ UNCHANGED <<now, store, call, mon, acks, nowResp>>

(* Time passes. *)
Tick ==
    /\ now < MaxClock
    /\ now' = now + 1
    /\ UNCHANGED <<store, conn, call, mon, acks, nowResp>>

(* Time passes, in whatever the agent is doing or waiting for. *)
Elapse ==
    /\ now < MaxTime
    /\ now' = now + 1
    /\ UNCHANGED <<store, conn, call, mon, acks, nowResp>>

---------------------------------------------------------------------------
(* Inputs *)

EventTypes == {"login", "logout"}
TimestampTexts ==
    {JunkText,
     IsoText("T", DateTime(0, FALSE, 0)),      \* naive
     IsoText("space", DateTime(0, FALSE, 0)),  \* the same, other spelling
     IsoText("T", DateTime(0, TRUE, 0)),       \* "...Z"
     IsoText("T", DateTime(1, TRUE, 1))}       \* the same instant at +01:00
Bodies ==
    {Payload(et, ts) : et \in {JAbsent, JStr(""), JStr("login")}, ts \in TimestampTexts}
LoginBodies == {Payload(JStr("login"), IsoText("T", DateTime(0, FALSE, 0)))}
AgentBodies ==
    {Payload(JStr(et), ts) : et \in EventTypes,
                             ts \in {JunkText, IsoText("T", DateTime(0, FALSE, 0))}}

(* Bodies for the agent's routes whose timestamps differ from every time   *)
(* the agent's clock shows: another spelling, an offset, a time far ahead. *)
StampBodies ==
    {Payload(JStr("login"), ts) :
        ts \in {JunkText,
                IsoText("space", DateTime(0, FALSE, 0)),
                IsoText("T", DateTime(1, TRUE, 1)),
                IsoText("T", DateTime(9, FALSE, 0))}}

(* Non-success statuses a server can answer with. *)
RejectStatuses == {404, 422, 503}

---------------------------------------------------------------------------
(* Specifications *)

Init ==
    /\ now = 0
    /\ store = <<>>
    /\ conn = [c \in Clients |-> IdleConn]
    /\ call = [c \in Callers |-> IdleCall]
    /\ mon = [m \in Monitors |-> NoMonitor]
    /\ acks = 0
    /\ nowResp = NoResp

Collector(c) ==
    \/ get_session(c)
    \/ \E fault \in Faults : create_event(c, fault)

Reporter(c) ==
    \/ client_post(c)
    \/ connect_error(c)
    \/ response_received(c)
    \/ read_timeout(c)
    \/ backoff_elapsed(c)

(* The collector and its direct clients. *)
NextCollector ==
    \/ \E c \in DirectClients : \E p \in Bodies : direct_post(c, p)
    \/ \E c \in DirectClients : Collector(c)

SpecCollector == Init /\ [][NextCollector]_vars

(* One caller of the agent's POST /report, and the collector. *)
NextReporter ==
    \/ \E p \in AgentBodies : report_now(p)
    \/ Reporter(ReportNow)
    \/ Collector(ReportNow)
    \/ Tick

SpecReporter == Init /\ [][NextReporter]_vars

(* One caller of the agent's POST /report against a server_url that can   *)
(* answer with any status.                                                 *)
NextStatus ==
    \/ \E p \in AgentBodies : report_now(p)
    \/ Reporter(ReportNow)
    \/ Collector(ReportNow)
    \/ \E status \in RejectStatuses : server_rejects(ReportNow, status)

SpecStatus == Init /\ [][NextStatus]_vars

(* One call of each route of the agent (for the loop: its first            *)
(* iteration), the clock, and a collector that stores what it gets.        *)
NextStamp ==
    \/ \E p \in StampBodies : call[ReportNow].pc = "idle" /\ report_now(p)
    \/ \E p \in StampBodies : NumSpawned = 0 /\ start_monitoring(p)
    \/ background_task_run(1)
    \/ \E c \in {ReportNow, 1} : Reporter(c)
    \/ \E c \in {ReportNow, 1} : get_session(c)
    \/ \E c \in {ReportNow, 1} : create_event(c, "none")
    \/ Tick

SpecStamp == Init /\ [][NextStamp]_vars

(* A single call of the agent's POST /report, and the collector. *)
NextOnce ==
    \/ \E p \in AgentBodies : call[ReportNow].pc = "idle" /\ report_now(p)
    \/ Reporter(ReportNow)
    \/ Collector(ReportNow)

SpecOnce == Init /\ [][NextOnce]_vars

(* The awaits of the call end: a request is answered or fails, a backoff   *)
(* elapses, the collector serves what it got.                              *)
FairOnce ==
    /\ SpecOnce
    /\ WF_vars(client_post(ReportNow) \/ connect_error(ReportNow))
    /\ WF_vars(response_received(ReportNow) \/ read_timeout(ReportNow))
    /\ WF_vars(backoff_elapsed(ReportNow))
    /\ WF_vars(Collector(ReportNow))

(* One monitor loop (a single start_monitoring call), and the collector. *)
NextLoop ==
    \/ \E p \in AgentBodies : NumSpawned = 0 /\ start_monitoring(p)
    \/ background_task_run(1)
    \/ monitor_sleep_elapsed(1)
    \/ cancel(1)
    \/ Reporter(1)
    \/ Collector(1)

SpecLoop == Init /\ [][NextLoop]_vars

(* The awaits of the loop end: a request is answered or fails (httpx's     *)
(* default timeout), a sleep elapses, the collector serves what it got.    *)
FairLoop ==
    /\ SpecLoop
    /\ WF_vars(background_task_run(1))
    /\ WF_vars(monitor_sleep_elapsed(1))
    /\ WF_vars(client_post(1) \/ connect_error(1))
    /\ WF_vars(response_received(1) \/ read_timeout(1))
    /\ WF_vars(backoff_elapsed(1))
    /\ WF_vars(Collector(1))

(* One monitor loop in time: its calls take time, its sleeps end no        *)
(* earlier than asyncio.sleep allows.                                      *)
NextTimed ==
    \/ \E p \in LoginBodies : NumSpawned = 0 /\ start_monitoring(p)
    \/ background_task_run(1)
    \/ monitor_timer_fired(1)
    \/ Reporter(1)
    \/ get_session(1)
    \/ \E fault \in {"none", "commit"} : create_event(1, fault)
    \/ Elapse

SpecTimed == Init /\ [][NextTimed]_vars

(* Several start_monitoring calls while the collector is unreachable. *)
NextSpawn ==
    \/ \E p \in AgentBodies : start_monitoring(p)
    \/ \E m \in Monitors : background_task_run(m)
    \/ \E m \in Monitors : connect_error(m)
    \/ \E m \in Monitors : backoff_elapsed(m)

SpecSpawn == Init /\ [][NextSpawn]_vars

(* Several monitor loops for one event type in their first iteration, and  *)
(* the collector.                                                          *)
NextLoops ==
    \/ \E p \in LoginBodies : start_monitoring(p)
    \/ \E m \in Monitors : background_task_run(m)
    \/ \E m \in Monitors : Reporter(m)
    \/ \E m \in Monitors : get_session(m)
    \/ \E m \in Monitors : \E fault \in {"none", "commit"} : create_event(m, fault)

SpecLoops == Init /\ [][NextLoops]_vars

(* The whole system. *)
Next ==
    \/ NextCollector
    \/ NextReporter
    \/ NextLoop
    \/ NextSpawn
    \/ NextLoops
    \/ NextStatus
    \/ NextTimed
    \/ NextStamp
    \/ NextOnce
    \/ \E m \in Monitors : monitor_sleep_elapsed(m) \/ cancel(m) \/ Collector(m)

Spec == Init /\ [][Next]_vars

---------------------------------------------------------------------------
(* Claims about the Reporter (SpecReporter)                                *)

(* The step in which call c gives up. *)
GivesUp(c) == call[c].pc \in {"attempt", "await"} /\ call'[c].pc = "raised"

(* The exceptions the attempt of call c that is under way can end with. *)
CausesNow(c) ==
    IF call[c].pc = "attempt"
    THEN {HTTPException500("ConnectError")}
    ELSE {HTTPException500("ReadTimeout"), HTTPStatusError(conn[c].status)}

(* C1: a report_event call never makes a 6th network attempt; it fails    *)
(* only after exactly 5 attempts, with tenacity's RetryError, and that     *)
(* error carries the exception of the 5th attempt (under sustained         *)
(* transport failure: the HTTPException built from the transport error).   *)
C1_FiveAttemptsThenDeliveryFailed ==
    /\ [](\A c \in Callers :
            /\ call[c].posts <= 5
            /\ call[c].pc = "raised" =>
                 /\ call[c].posts = 5
                 /\ call[c].error.kind = "RetryError"
                 /\ call[c].transport =>
                      /\ call[c].error.last_attempt.kind = "HTTPException"
                      /\ call[c].error.last_attempt.detail \in RequestErrors)
    /\ [][\A c \in Callers :
            GivesUp(c) => call'[c].error.last_attempt \in CausesNow(c)]_vars

(* C1 witness: a call whose 5 attempts all failed in the transport gave up. *)
C1_Witness ==
    /\ call[ReportNow].pc = "raised"
    /\ call[ReportNow].transport
    /\ call[ReportNow].posts = 5

(* The delay tenacity waits after attempt i: 2, 2, 4, 8. *)
BackoffAfter(i) == Max(2, Min(Pow(2, i - 1), 10))

(* C2 (as amended): the delays waited within one call are 2, 2, 4, 8: each *)
(* within [2, 10], never decreasing, the first two both the minimum 2 and  *)
(* each later one double the one before it (capped at 10).                 *)
C2_BackoffDelays ==
    \A c \in Callers :
        LET s == call[c].slept
        IN  /\ \A i \in 1..Len(s) :
                /\ 2 <= s[i] /\ s[i] <= 10
                /\ s[i] = BackoffAfter(i)
                /\ i >= 2 => s[i - 1] <= s[i]
                /\ i = 2 => s[i] = s[i - 1]
                /\ i >= 3 => s[i] = Min(2 * s[i - 1], 10)
            /\ call[c].pc = "backoff" => call[c].delay = BackoffAfter(call[c].attempt)

(* C2 witness: all four backoffs of a call were waited. *)
C2_Witness == Len(call[ReportNow].slept) = 4

(* C2 as stated: the delays are strictly increasing, within [2, 10], each  *)
(* double the one before it until the maximum.                             *)
C2_StrictlyIncreasingDelays ==
    \A c \in Callers :
        LET s == call[c].slept
        IN  \A i \in 1..Len(s) :
                /\ 2 <= s[i] /\ s[i] <= 10
                /\ i >= 2 => /\ s[i - 1] < s[i]
                             /\ s[i] = Min(2 * s[i - 1], 10)

(* C8 as stated, on the agent's POST /report: a failure reaches the caller *)
(* as a response FastAPI built from an HTTPException, and after 5 failed   *)
(* attempts it carries the status of the failed delivery attempt.          *)
C8_ReportNowFailureIsStructured ==
    /\ nowResp.status >= 400 => nowResp.handled
    /\ (call[ReportNow].pc = "raised" /\ nowResp.status # 0) =>
           nowResp.status = call[ReportNow].error.last_attempt.status

(* The backoff a call has waited when all 5 attempts failed. *)
TotalBackoff == SumSeq([i \in 1..4 |-> BackoffAfter(i)])

(* C9: a call that gives up has made 5 attempts and waited exactly the 4   *)
(* backoffs between them, none after the 5th; no call ever waits more, and *)
(* the caller of POST /report has its failure only then.                   *)
C9_FailureAfterCumulativeBackoff ==
    /\ \A c \in Callers :
        /\ SumSeq(call[c].slept) <= TotalBackoff
        /\ call[c].pc = "raised" =>
             /\ call[c].posts = 5
             /\ Len(call[c].slept) = 4
             /\ SumSeq(call[c].slept) = TotalBackoff
             /\ call[c].delay = 0
    /\ nowResp.status >= 500 =>
         /\ call[ReportNow].pc = "raised"
         /\ SumSeq(call[ReportNow].slept) = TotalBackoff

(* C9 witness: the caller of POST /report got the failure of a call whose  *)
(* collector was unreachable all along.                                    *)
C9_Witness ==
    /\ nowResp.status >= 500
    /\ call[ReportNow].pc = "raised"
    /\ call[ReportNow].transport
    /\ call[ReportNow].error.last_attempt.detail = "ConnectError"

(* What tenacity does with call c after a failed attempt: the 5th attempt  *)
(* ends the call, an earlier one is followed by the backoff of its number. *)
RetriedAlike(c) ==
    /\ call'[c].pc = IF call[c].attempt = 5 THEN "raised" ELSE "backoff"
    /\ call'[c].pc = "backoff" => call'[c].delay = BackoffAfter(call[c].attempt)
    /\ call'[c].pc = "raised" => call'[c].error.kind = "RetryError"
    /\ call'[c].attempt = call[c].attempt
    /\ call'[c].slept = call[c].slept

(* C13 (SpecStatus): a response with a non-success status, a 4xx included, *)
(* is followed by exactly what follows a transport failure: the backoff of *)
(* the attempt's number, or the end of the call at the 5th attempt; and no *)
(* call fails before its 5th attempt and 4 backoffs, whatever the statuses.*)
C13_EveryFailureIsRetriedAlike ==
    /\ [][\A c \in Callers :
            (/\ call[c].pc = "await" /\ conn[c].st = "resp"
             /\ conn[c].status \notin 200..299
             /\ call'[c] # call[c]) => RetriedAlike(c)]_vars
    /\ [][\A c \in Callers :
            (call[c].pc = "attempt" /\ call'[c].pc \in {"backoff", "raised"})
                => RetriedAlike(c)]_vars
    /\ [](\A c \in Callers :
            call[c].pc = "raised" =>
                /\ call[c].posts = 5
                /\ call[c].slept = <<2, 2, 4, 8>>)

(* C13 witness: a call gave up on a 422, its 5th non-success response. *)
C13_Witness ==
    /\ call[ReportNow].pc = "raised"
    /\ call[ReportNow].error.last_attempt = HTTPStatusError(422)
    /\ ~call[ReportNow].transport
    /\ call[ReportNow].posts = 5

(* A timestamp text as report_event writes it at the time t: the naive     *)
(* local time in isoformat.                                                *)
StampedAt(t) == [form |-> "T", wall |-> t, aware |-> FALSE, off |-> 0]

(* C19 (SpecStamp): every request of the agent carries the event_type of   *)
(* its call and the time of its own client.post as timestamp, so every     *)
(* timestamp in flight or in the table is a time the agent's clock showed; *)
(* and a call of either route takes nothing but the event_type from the    *)
(* body it was given: it sends nothing and keeps no timestamp.             *)
C19_TimestampIsTakenAtEachAttempt ==
    /\ [][\A c \in Callers :
            (call[c].pc = "attempt" /\ call'[c].pc = "await") =>
                conn'[c].payload = Payload(JStr(call[c].event_type), StampedAt(now))]_vars
    /\ [](\A c \in Callers :
            conn[c].st # "idle" =>
                \E t \in 0..now : conn[c].payload.timestamp = StampedAt(t))
    /\ [](\A i \in 1..Len(store) :
            \E t \in 0..now : store[i].timestamp = DateTime(t, FALSE, 0))
    /\ [][(call[ReportNow].pc = "idle" /\ call'[ReportNow].pc # "idle") =>
            /\ call'[ReportNow] = NewCall("login")
            /\ conn' = conn /\ store' = store]_vars
    /\ [][acks' # acks =>
            /\ mon'[1] = [NoMonitor EXCEPT !.pc = "spawned", !.event_type = "login"]
            /\ conn' = conn /\ store' = store /\ call' = call]_vars

(* C19 witness: the one call of POST /report was committed twice, at its   *)
(* first attempt (whose answer was lost) and at its second, and the two    *)
(* rows differ in timestamp; no loop was started.                          *)
C19_Witness ==
    /\ NumSpawned = 0
    /\ call[ReportNow].pc = "returned"
    /\ call[ReportNow].posts = 2
    /\ Len(store) = 2
    /\ store[1].timestamp = DateTime(0, FALSE, 0)
    /\ store[2].timestamp = DateTime(1, FALSE, 0)

(* C20 (SpecReporter): a call returns in the step in which one of its      *)
(* attempts gets a 2xx response, with the body of that response as result; *)
(* at that moment it has made as many requests as its attempt number k     *)
(* (1 to 5) and waited the k-1 backoffs before them; once returned it      *)
(* makes no further request; each request is one client.post, and no call  *)
(* makes more than 5.                                                      *)
C20_ReturnsAtFirstSuccess ==
    /\ [](\A c \in Callers :
            /\ call[c].posts <= 5
            /\ call[c].pc = "returned" =>
                  /\ call[c].attempt \in 1..5
                  /\ call[c].posts = call[c].attempt
                  /\ Len(call[c].slept) = call[c].attempt - 1
                  /\ call[c].result = "Event recorded")
    /\ [][\A c \in Callers :
            (call[c].pc # "returned" /\ call'[c].pc = "returned") =>
                /\ call[c].pc = "await"
                /\ conn[c].st = "resp" /\ conn[c].status \in 200..299
                /\ call'[c].result = conn[c].body
                /\ call'[c].posts = call[c].posts
                /\ call'[c].attempt = call[c].attempt
                /\ call'[c].slept = call[c].slept]_vars
    /\ [][\A c \in Callers :
            call[c].pc = "returned" =>
                (call'[c] = call[c] \/ call'[c].posts = 0)]_vars
    /\ [][\A c \in Callers :
            (conn[c].st # "sent" /\ conn'[c].st = "sent") =>
                call'[c].posts = call[c].posts + 1]_vars

(* C20 witness: a call returned the collector's acknowledgement at its 5th *)
(* attempt, after four failed ones and four backoffs.                      *)
C20_Witness ==
    /\ call[ReportNow].pc = "returned"
    /\ call[ReportNow].attempt = 5
    /\ call[ReportNow].posts = 5
    /\ call[ReportNow].slept = <<2, 2, 4, 8>>
    /\ call[ReportNow].result = "Event recorded"

---------------------------------------------------------------------------
(* Claims about the Monitor (FairLoop, SpecSpawn, SpecLoops)               *)

(* C3: no delivery failure ends the loop: a report_event that gives up     *)
(* leaves the loop sleeping, the loop is never crashed, and after N        *)
(* consecutive failed iterations the loop, unless cancelled, starts        *)
(* iteration N+1.                                                          *)
C3_MonitorSurvivesFailures ==
    /\ [](\A m \in Monitors : mon[m].pc # "crashed")
    /\ [][\A m \in Monitors :
            (mon[m].pc = "reporting" /\ call'[m].pc = "raised") =>
                /\ mon'[m].pc = "sleeping"
                /\ mon'[m].fails = mon[m].fails + 1]_vars
    /\ \A n \in 1..(MaxIter - 1) :
            (mon[1].pc = "sleeping" /\ mon[1].fails = n /\ mon[1].iter = n)
                ~> (mon[1].iter = n + 1 \/ mon[1].pc = "cancelled")

(* C3 witness: after two iterations that both gave up, the third is under  *)
(* way.                                                                    *)
C3_Witness ==
    /\ mon[1].fails = 2
    /\ mon[1].iter = 3
    /\ mon[1].pc = "reporting"

(* C6: every acknowledgement stands for a loop of its own: the step that   *)
(* acknowledges adds one loop that has not run yet and touches no other    *)
(* loop, and a loop once spawned stays the loop of its event type.         *)
C6_EveryStartSpawnsItsOwnLoop ==
    /\ [](acks = NumSpawned)
    /\ [][acks' # acks =>
            /\ acks' = acks + 1
            /\ NumSpawned' = NumSpawned + 1
            /\ mon'[NumSpawned + 1].pc = "spawned"
            /\ mon'[NumSpawned + 1].iter = 0
            /\ call' = call
            /\ \A m \in Monitors : Spawned(m) => mon'[m] = mon[m]]_vars
    /\ [][\A m \in Monitors :
            Spawned(m) => /\ mon'[m].pc # "unspawned"
                          /\ mon'[m].event_type = mon[m].event_type]_vars

(* C6 witness: two calls for the same event type, two loops reporting at   *)
(* the same time.                                                          *)
C6_Witness ==
    /\ acks = 2
    /\ mon[1].event_type = mon[2].event_type
    /\ mon[1].pc = "reporting" /\ mon[2].pc = "reporting"
    /\ call[1].pc = "backoff" /\ call[2].pc = "attempt"

(* The step in which the collector answers the request of client c. *)
Ingested(c) == conn[c].st = "open" /\ conn'[c].st = "resp"

(* The rows are only ever appended to. *)
RowsKept == Len(store') >= Len(store) /\ SubSeq(store', 1, Len(store)) = store

(* C7: a step of one loop's call leaves every other loop and its call as   *)
(* they were, every call keeps its own count (as many backoffs waited as   *)
(* attempts before the current one, 5 attempts before it gives up), and    *)
(* every delivery the collector accepts adds a row of its own while the    *)
(* rows already there stay.                                                *)
C7_LoopsAreIndependent ==
    /\ [][\A m1, m2 \in Monitors :
            (m1 # m2 /\ call'[m1] # call[m1]) =>
                (call'[m2] = call[m2] /\ mon'[m2] = mon[m2])]_vars
    /\ [](\A m \in Monitors :
            /\ call[m].pc \in {"attempt", "await", "backoff"} =>
                 Len(call[m].slept) = call[m].attempt - 1
            /\ call[m].pc = "raised" => call[m].posts = 5)
    /\ [][RowsKept]_vars
    /\ [][\A c \in Clients :
            (Ingested(c) /\ conn'[c].status = 201) =>
                /\ Len(store') = Len(store) + 1
                /\ store'[Len(store')].event_type = conn[c].payload.event_type.val
                /\ \A i \in 1..Len(store) : store[i].id # store'[Len(store')].id]_vars

(* C7 witness: both loops report "login"; one is at its 4th backoff while  *)
(* the other got its first delivery accepted and stored.                   *)
C7_Witness ==
    /\ mon[1].event_type = mon[2].event_type
    /\ call[1].pc = "backoff" /\ call[1].attempt = 4
    /\ call[2].pc = "returned" /\ call[2].posts = 1
    /\ Len(store) >= 1

(* A report_event call that is under way: attempting, awaiting the         *)
(* response, or in a backoff wait.                                         *)
InProgress(c) == call[c].pc \in {"attempt", "await", "backoff"}

(* C12: the deliveries of one loop are strictly sequential: the loop has a *)
(* call under way only while it is in its reporting step, and then exactly *)
(* the call of the current iteration; its only request in flight belongs   *)
(* to that call; and an iteration starts (the iteration count goes up, a   *)
(* new call makes its first attempt) only when the call before it has      *)
(* returned or raised.                                                     *)
C12_DeliveriesAreSequential ==
    /\ [](\A m \in Monitors :
            /\ InProgress(m) => mon[m].pc = "reporting"
            /\ mon[m].pc = "sleeping" => call[m].pc \in {"returned", "raised"}
            /\ call[m].pc = "attempt" => conn[m].st = "idle"
            /\ (conn[m].st # "idle" /\ mon[m].pc # "cancelled") => call[m].pc = "await")
    /\ [][\A m \in Monitors :
            mon'[m].iter # mon[m].iter =>
                /\ mon'[m].iter = mon[m].iter + 1
                /\ ~InProgress(m)
                /\ mon[m].iter >= 1 => call[m].pc \in {"returned", "raised"}
                /\ call'[m].pc = "attempt" /\ call'[m].attempt = 1
                /\ call'[m].posts = 0]_vars
    /\ [][\A m \in Monitors :
            (InProgress(m) /\ call'[m].attempt < call[m].attempt) =>
                mon'[m].pc = "cancelled"]_vars

(* C12 witness: the second iteration is in a backoff wait of its call,     *)
(* after the first iteration's call had raised.                            *)
C12_Witness ==
    /\ mon[1].iter = 2
    /\ mon[1].fails = 1
    /\ mon[1].pc = "reporting"
    /\ call[1].pc = "backoff"
    /\ call[1].attempt = 3

(* The table holds a row with the event_type of call c. *)
Persisted(c) == \E i \in 1..Len(store) : store[i].event_type = call[c].event_type

(* The step in which call c returns. *)
Returns(c) == call[c].pc = "await" /\ call'[c].pc = "returned"

(* C15 (as amended, FairOnce): a call returns only on the 201 of a request *)
(* that carried its event_type and whose add_event committed, so the table *)
(* holds a row of its event_type from then on; a call that does not return *)
(* raises, and only after 5 attempts; every call ends in one of the two    *)
(* ways. The event of a call that raised is not sent again.                *)
C15_AtLeastOnceUnlessFiveAttemptsFail ==
    /\ [][\A c \in Callers :
            Returns(c) =>
                /\ conn[c].status = 201
                /\ conn[c].tries = 1 /\ conn[c].fault = "none"
                /\ conn[c].payload.event_type = JStr(call[c].event_type)
                /\ Persisted(c)]_vars
    /\ [](\A c \in Callers : call[c].pc = "returned" => Persisted(c))
    /\ [](\A c \in Callers : call[c].pc = "raised" => call[c].posts = 5)
    /\ [][\A c \in Callers :
            call[c].pc = "raised" => (call'[c] = call[c] /\ conn' = conn)]_vars
    /\ (call[ReportNow].pc = "attempt" /\ call[ReportNow].attempt = 1)
            ~> (call[ReportNow].pc \in {"returned", "raised"})

(* C15 witness: the call returned on its second attempt, and the table     *)
(* holds two rows of its event: the first attempt was committed too, but   *)
(* its answer did not reach the call.                                      *)
C15_Witness ==
    /\ call[ReportNow].pc = "returned"
    /\ call[ReportNow].posts = 2
    /\ Len(store) = 2
    /\ store[1].event_type = call[ReportNow].event_type
    /\ store[2].event_type = call[ReportNow].event_type

(* C15 as stated: a call that returns has a row of its event_type in the   *)
(* table, and every event handed to report_event is eventually in the      *)
(* table.                                                                  *)
C15_NoEventIsLost ==
    /\ [](\A c \in Callers : call[c].pc = "returned" => Persisted(c))
    /\ (call[ReportNow].pc = "attempt" /\ call[ReportNow].attempt = 1)
            ~> Persisted(ReportNow)

(* C16 (SpecTimed): when the call of an iteration ends, by returning or by *)
(* raising, the loop enters a sleep that is over a full interval (10)      *)
(* after that moment, however long the call took; the sleep is not cut     *)
(* short while it lasts; and the next iteration starts no earlier than the *)
(* end of the sleep.                                                       *)
C16_FullIntervalBetweenIterations ==
    /\ [][\A m \in Monitors :
            (mon[m].pc = "reporting" /\ call'[m].pc \in {"returned", "raised"}) =>
                /\ mon'[m].pc = "sleeping"
                /\ now' = now
                /\ mon'[m].wake = now + 10]_vars
    /\ [][\A m \in Monitors :
            mon[m].pc = "sleeping" => mon'[m].wake = mon[m].wake]_vars
    /\ [][\A m \in Monitors :
            (mon[m].pc = "sleeping" /\ mon'[m].iter # mon[m].iter) =>
                now >= mon[m].wake]_vars
    /\ [](\A m \in Monitors :
            (mon[m].iter >= 2 /\ mon[m].pc = "reporting") => now >= mon[m].wake)

(* C16 witness: the first call raised at time 2, after time spent in its   *)
(* retries, and the second iteration started at time 12.                   *)
C16_Witness ==
    /\ mon[1].iter = 2
    /\ mon[1].fails = 1
    /\ mon[1].wake = 12
    /\ now = 12
    /\ call[1].pc = "attempt" /\ call[1].posts = 0

(* The loop of task m is suspended at an await. *)
Suspended(m) == mon[m].pc = "sleeping" \/ (mon[m].pc = "reporting" /\ InProgress(m))

(* C18 (SpecLoop): the task of a loop can be cancelled wherever the loop   *)
(* is suspended (an attempt, a backoff wait, the sleep between             *)
(* iterations); the cancellation ends the call without a retry and ends    *)
(* the loop instead of being caught by it; and a loop that was cancelled   *)
(* does nothing any more: no further iteration, no further attempt.        *)
C18_CancellationEndsTheLoop ==
    /\ [](\A m \in Monitors : Suspended(m) => ENABLED cancel(m))
    /\ [](\A m \in Monitors :
            /\ call[m].error.kind = "CancelledError" => mon[m].pc = "cancelled"
            /\ mon[m].pc = "cancelled" =>
                  (call[m].pc = "cancelled" /\ call[m].posts = 0))
    /\ [][\A m \in Monitors :
            (Suspended(m) /\ mon'[m].pc = "cancelled") =>
                call'[m].error = CancelledError]_vars
    /\ [][\A m \in Monitors :
            mon[m].pc = "cancelled" =>
                (mon'[m] = mon[m] /\ call'[m] = call[m])]_vars

(* C18 witness: the loop was cancelled in its second iteration while a     *)
(* request of its call was with the collector; loop and call are over.     *)
C18_Witness ==
    /\ mon[1].pc = "cancelled"
    /\ mon[1].iter = 2
    /\ call[1].error = CancelledError
    /\ conn[1].st \in {"sent", "open"}

---------------------------------------------------------------------------
(* Claims about the collector (SpecCollector)                              *)

(* The point in time a datetime stands for, a naive one read as UTC. *)
Instant(dt) == dt.wall - dt.off

(* C4 as stated: a body with a non-empty event_type and a parsable         *)
(* timestamp, persisted without a fault, adds exactly one row with a new   *)
(* id, the body's event_type and the body's timestamp, and is answered 201. *)
C4_ValidPayloadPersistsItsRecord ==
    [][\A c \in Clients :
        (/\ Ingested(c)
         /\ EventCreateValid(conn[c].payload)
         /\ conn[c].payload.event_type.val # ""
         /\ conn'[c].fault = "none") =>
            /\ conn'[c].status = 201
            /\ Len(store') = Len(store) + 1
            /\ SubSeq(store', 1, Len(store)) = store
            /\ \A i \in 1..Len(store) : store[i].id # store'[Len(store')].id
            /\ store'[Len(store')].event_type = conn[c].payload.event_type.val
            /\ Instant(store'[Len(store')].timestamp)
                 = Instant(ParseTimestamp(conn[c].payload.timestamp))]_vars

(* A body the spec calls malformed. *)
Malformed(p) ==
    \/ p.event_type.tag = "absent"
    \/ p.event_type.val = ""
    \/ ~ParsableTimestamp(p.timestamp)

(* C5 as stated: a malformed body is answered with a client error, never   *)
(* reaches add_event and leaves the table as it was.                       *)
C5_MalformedPayloadIsRejected ==
    [][\A c \in Clients :
        (Ingested(c) /\ Malformed(conn[c].payload)) =>
            /\ conn'[c].status \in 400..499
            /\ conn'[c].tries = 0
            /\ store' = store]_vars

(* C10: when the insert or the commit raises, the table holds the rows it  *)
(* held before, the caller is answered with a server error, and add_event  *)
(* ran once for the request, which is over.                                *)
C10_PersistenceFailureRollsBack ==
    /\ [][\A c \in Clients :
            (Ingested(c) /\ conn'[c].fault \in {"insert", "commit"}) =>
                /\ store' = store
                /\ conn'[c].status \in 500..599
                /\ conn'[c].tries = 1]_vars
    /\ [](\A c \in Clients : conn[c].tries <= 1)

(* C10 witness: a commit failed on a table that already held a row. *)
C10_Witness ==
    \E c \in DirectClients :
        /\ conn[c].st = "resp"
        /\ conn[c].fault = "commit"
        /\ conn[c].status = 500
        /\ Len(store) = 1

(* C11: the table is append-only: every step keeps every row it held, with *)
(* its id, event_type and timestamp, at its place; a step that changes the *)
(* table appends exactly one row, and it is the add_event of a request     *)
(* whose body validated.                                                   *)
C11_StoreIsAppendOnly ==
    /\ [][/\ Len(store') >= Len(store)
          /\ \A i \in 1..Len(store) : store'[i] = store[i]]_vars
    /\ [][store' # store =>
            /\ Len(store') = Len(store) + 1
            /\ \E c \in Clients :
                  /\ conn[c].st = "open" /\ conn'[c].st # "open"
                  /\ EventCreateValid(conn[c].payload)
                  /\ conn'[c].tries = 1
                  /\ store'[Len(store')].event_type = conn[c].payload.event_type.val]_vars

(* C11 witness: a row stored first is still there, unchanged, after a      *)
(* second row with another timestamp was stored and a later commit failed. *)
C11_Witness ==
    /\ Len(store) = 2
    /\ store[1] = [id |-> 1, event_type |-> "login", timestamp |-> DateTime(0, FALSE, 0)]
    /\ store[2].event_type = "login"
    /\ store[2].timestamp = DateTime(1, FALSE, 0)
    /\ \E c \in DirectClients : conn[c].st = "resp" /\ conn[c].fault = "commit"

(* The step in which the commit of the request of client c succeeds. *)
Commits(c) ==
    /\ Ingested(c)
    /\ conn'[c].tries = 1
    /\ conn'[c].fault \in {"none", "refresh"}

(* C14: every ingestion whose commit succeeds adds one row, whatever the   *)
(* table holds already, with an id no other row has; the table grows by no *)
(* other step, so it holds as many rows as ingestions have committed (row  *)
(* number i has id i).                                                     *)
C14_CollectorNeverDeduplicates ==
    /\ [][\A c \in Clients :
            Commits(c) =>
                /\ Len(store') = Len(store) + 1
                /\ \A i \in 1..Len(store) : store[i].id # store'[Len(store')].id
                /\ store'[Len(store')].event_type = conn[c].payload.event_type.val
                /\ store'[Len(store')].timestamp =
                      ColumnDateTime(ParseTimestamp(conn[c].payload.timestamp))]_vars
    /\ [][Len(store') # Len(store) =>
            /\ Len(store') = Len(store) + 1
            /\ \E c \in Clients : Commits(c)]_vars
    /\ [](\A i \in 1..Len(store) : store[i].id = i)

(* C14 witness: two deliveries of the same event_type and timestamp are    *)
(* two rows.                                                               *)
C14_Witness ==
    /\ Len(store) = 2
    /\ store[1].event_type = store[2].event_type
    /\ store[1].timestamp = store[2].timestamp
    /\ store[1].id # store[2].id

(* C17: a request that is being served holds a session, no two requests    *)
(* hold the same one, and a request that is not being served (not yet, or  *)
(* answered with 201, 422 or 500) holds none.                              *)
C17_SessionPerRequestAlwaysReleased ==
    /\ \A c \in Clients : conn[c].st = "open" => conn[c].session # 0
    /\ \A c1, c2 \in Clients :
          (c1 # c2 /\ conn[c1].session # 0) => conn[c1].session # conn[c2].session
    /\ \A c \in Clients : conn[c].st # "open" => conn[c].session = 0

(* C17 witness: one request was rejected with 422 and released its         *)
(* session, an earlier one was stored, and a second client's request holds *)
(* a session of its own.                                                   *)
C17_Witness ==
    \E c1, c2 \in DirectClients :
        /\ conn[c1].st = "resp" /\ conn[c1].status = 422 /\ conn[c1].session = 0
        /\ conn[c2].st = "open" /\ conn[c2].session # 0
        /\ Len(store) = 1

====
